---- MODULE Spec2Model ----
(***************************************************************************)
(* A model of rover's telemetry fan-out: the Updater sinks                 *)
(* (src/updater/{tcp,websocket,stdio}.rs), the receive-path cascade they   *)
(* share, and the router in src/logging.rs (run_logging).                  *)
(*                                                                         *)
(* Its specifications share the module's variables; each one drives its   *)
(* own group and leaves the others at their initial value:                 *)
(*   Spec         the TCP / WebSocket sink worker, its caller and peers    *)
(*   StdioSpec    the Process sink worker, its caller and its child        *)
(*   CascadeSpec  the receive-path classification as a pure function       *)
(*   RouterSpec   run_logging: sink set-up, attach retry, polling          *)
(*   LifeSpec     one Updater instance under start() and stop() calls      *)
(*   TcpFairSpec  the TCP sink alone, its worker scheduled fairly          *)
(*   RouterFairSpec  run_logging, the router thread scheduled fairly       *)
(*   RemoveSpec   the removal loop that ends a pass, as a pure function    *)
(*   ApplySpec    Configs::apply over a map of named configs               *)
(*   MainSpec     main_try from flashing onwards, and entry around it      *)
(***************************************************************************)
EXTENDS Integers, Sequences, FiniteSets, TLC

\* ------------------------------------------------------------------ bounds
MaxClients == 2       \* peers that ever connect to one sink
MaxVals == 2          \* values the caller enqueues
MaxOut == 2           \* values the worker pushes to the caller
MaxLen == 4           \* length of a received byte sequence (cascade)
MaxChannels == 2      \* configured logical channels
MaxKinds == 1         \* kinds per configured channel
MaxFails == 3         \* attach attempts that fail
MaxStarts == 3        \* start() calls on one Updater instance
MaxLive == 4          \* clients in a live set handed to the removal loop
MaxDepth == 4         \* frames of Configs::apply the stack has room for

\* ------------------------------------------------------- program constants
\* Vec::with_capacity(1 << 16) has capacity 65536 and LENGTH 0; read(&mut
\* buffer) is handed buffer[..len], so BufLen is the room a read has.
BufLen == 0

\* ------------------------------------------------------------------ helpers
Min(a, b) == IF a < b THEN a ELSE b
Range(s) == {s[i] : i \in DOMAIN s}
Take(s, n) == SubSeq(s, 1, Min(n, Len(s)))
Drop(s, n) == SubSeq(s, Min(n, Len(s)) + 1, Len(s))

\* ----------------------------------------------------------------- Value<T>
\* updater/mod.rs: enum Value<T> { Bytes(Vec<u8>), String(String),
\* StructuredString(T) }.  run_logging instantiates T = (), so a structured
\* value carries no data.  A Rust String is its UTF-8 bytes.
Bytes(b) == [tag |-> "Bytes", data |-> b]
String(b) == [tag |-> "String", data |-> b]
StructuredString == [tag |-> "StructuredString", data |-> <<>>]

\* ------------------------------------------------------ String::from_utf8
IsCont(b) == b >= 128 /\ b <= 191

\* Length of the well-formed UTF-8 scalar at the head of b, 0 if there is none.
Utf8Head(b) ==
    IF b = <<>> THEN 0
    ELSE LET b1 == b[1] IN
      IF b1 < 128 THEN 1
      ELSE IF b1 >= 194 /\ b1 <= 223
        THEN IF Len(b) >= 2 /\ IsCont(b[2]) THEN 2 ELSE 0
      ELSE IF b1 >= 224 /\ b1 <= 239
        THEN IF /\ Len(b) >= 3 /\ IsCont(b[2]) /\ IsCont(b[3])
                /\ (b1 = 224 => b[2] >= 160)
                /\ (b1 = 237 => b[2] <= 159)
             THEN 3 ELSE 0
      ELSE IF b1 >= 240 /\ b1 <= 244
        THEN IF /\ Len(b) >= 4 /\ IsCont(b[2]) /\ IsCont(b[3]) /\ IsCont(b[4])
                /\ (b1 = 240 => b[2] >= 144)
                /\ (b1 = 244 => b[2] <= 143)
             THEN 4 ELSE 0
      ELSE 0

RECURSIVE from_utf8_ok(_)
from_utf8_ok(b) ==
    IF b = <<>> THEN TRUE
    ELSE LET n == Utf8Head(b) IN
      IF n = 0 THEN FALSE ELSE from_utf8_ok(SubSeq(b, n + 1, Len(b)))

\* --------------------------------------------- serde_json::from_str::<()>
\* The record type is (): the text parses iff it is the literal null with
\* JSON whitespace (space, \t, \n, \r) around it and nothing else.
JsonWs == {32, 9, 10, 13}
NullLit == <<110, 117, 108, 108>>

RECURSIVE SkipWs(_)
SkipWs(b) == IF b # <<>> /\ b[1] \in JsonWs THEN SkipWs(Tail(b)) ELSE b

RECURSIVE OnlyWs(_)
OnlyWs(b) == b = <<>> \/ (b[1] \in JsonWs /\ OnlyWs(Tail(b)))

from_str_ok(b) ==
    LET r == SkipWs(b) IN
      /\ Len(r) >= 4
      /\ SubSeq(r, 1, 4) = NullLit
      /\ OnlyWs(SubSeq(r, 5, Len(r)))

\* --------------------------------------------------- receive-path cascade
\* tcp.rs 88-108: Ok(count) => truncate, from_utf8, from_str, send.
classify_swapped(buffer, count) ==
    LET buf == Take(buffer, count) IN
      IF from_str_ok(buf) THEN StructuredString
      ELSE IF from_utf8_ok(buf) THEN Bytes(buf) ELSE String(buf)

classify_short(buffer, count) ==
    LET buf == Take(buffer, count - 1) IN
      IF from_utf8_ok(buf)
      THEN IF from_str_ok(buf) THEN StructuredString ELSE String(buf)
      ELSE Bytes(buf)

tcp_classify(buffer, count) ==
    LET buf == Take(buffer, count) IN
      IF from_utf8_ok(buf)
      THEN IF from_str_ok(buf) THEN StructuredString ELSE String(buf)
      ELSE Bytes(buf)

\* stdio.rs 73-96: the same cascade on the child's standard output.
stdio_classify(buffer, count) ==
    LET buf == Take(buffer, count) IN
      IF from_utf8_ok(buf)
      THEN IF from_str_ok(buf) THEN StructuredString ELSE String(buf)
      ELSE Bytes(buf)

\* websocket.rs 85-104: a text frame is parsed, then kept as text; a binary
\* frame is Bytes; every other message (ping, pong, close) yields nothing.
NoValue == [tag |-> "none", data |-> <<>>]
Text(b) == [kind |-> "Text", data |-> b]
Binary(b) == [kind |-> "Binary", data |-> b]
Ping == [kind |-> "Ping", data |-> <<>>]

ws_classify(msg) ==
    IF msg.kind = "Text"
    THEN IF from_str_ok(msg.data) THEN StructuredString ELSE String(msg.data)
    ELSE IF msg.kind = "Binary" THEN Bytes(msg.data)
    ELSE NoValue


\* ========================================================================
\* State
\* ========================================================================
VARIABLES
    \* --- TCP / WebSocket sink (updater/tcp.rs, updater/websocket.rs)
    sink,        \* "tcp" or "ws": which Updater this worker is
    accept_nb,   \* platform: does an accepted stream inherit O_NONBLOCK
    pc,          \* worker position in its loop
    sockets,     \* the live set: Vec<(stream, addr)>, as client ids
    backlog,     \* connections the listener has not accepted yet
    hs,          \* ws: the client whose handshake accept(stream) is running
    peer,        \* per client: state of the remote end and its connection
    pend,        \* per client: what the peer sent and the worker has not read
    inbound,     \* caller -> worker queue (Receiver<Value<O>> in the worker)
    outbound,    \* worker -> caller queue, its first MaxOut values
    halt,        \* messages in the halt channel
    stop_state,  \* the caller's stop(): "running", "joining", "ok"
    next_id,     \* id of the next value the caller enqueues
    wlog,        \* per client: every write issued on its socket, with result
    disc,        \* clients whose socket reported a disconnect-class error
    nread        \* per client: values in outbound that were read from it

sinkVars == <<sink, accept_nb, pc, sockets, backlog, hs, peer, pend, inbound,
              outbound, halt, stop_state, next_id, wlog, disc, nread>>

\* --- Process sink (updater/stdio.rs)
VARIABLES
    p_pc,        \* worker position: "halt", "read", "write", "done"
    child,       \* the spawned process: "running", "exited", "killed"
    p_stdout,    \* bytes the child wrote that the worker has not read
    p_inbound,   \* caller -> worker queue
    p_outbound,  \* worker -> caller queue, its first MaxOut values
    p_halt,      \* messages in the halt channel
    p_stop,      \* the caller's stop(): "running", "joining", "ok"
    p_next,      \* id of the next value the caller enqueues
    p_stdin,     \* every write issued on the child's stdin, with result
    p_in_open    \* does the child still hold its standard input open

stdioVars == <<p_pc, child, p_stdout, p_inbound, p_outbound, p_halt, p_stop,
               p_next, p_stdin, p_in_open>>

\* --- the receive-path cascade, applied to one input
VARIABLES
    c_in,        \* the byte sequence a sink has read
    c_res        \* per receive path: the Value it sent, NoValue before

cascadeVars == <<c_in, c_res>>

\* --- the router (logging.rs, run_logging)
VARIABLES
    channels,    \* the configured logical channels (read-only input)
    r_pc,        \* position of run_logging and of the thread it spawns
    r_i,         \* index of the channel the set-up loop is at
    started,     \* the sinks start() was called on and that run, by link
    updaters,    \* HashMap<LinkKind, UpdaterChannel>: link -> index in started
    attempt,     \* the attach loop's counter i
    init_logs,   \* "Initializing RTT (attempt i)" lines logged
    fail_logs,   \* "Failed to initialize RTT. Retrying." lines logged
    fails,       \* attach attempts that failed
    rtt,         \* "NotAttached" or "Attached"
    r_k,         \* position of the polling loop: <<channel, kind>>
    last_poll,   \* result of the latest poll_rtt: "none", "ok", "err"
    tx,          \* values sent to the sinks, the first MaxOut of them
    handles,     \* the Updater objects run_logging holds, as indices in started
    rx_q         \* per link: values its sink pushed that wait in updaters' rx

routerVars == <<channels, r_pc, r_i, started, updaters, attempt, init_logs,
                fail_logs, fails, rtt, r_k, last_poll, tx, handles, rx_q>>

\* --- one Updater instance and the workers its start() calls spawned
VARIABLES
    u_kind,        \* the variant: "stdio" or "tcp" (the WebSocket one is alike)
    u_ephemeral,   \* tcp: is the connection string's port 0
    thread_handle, \* self.thread_handle: 0 for None, else the worker it names
    u_workers,     \* per spawned worker: "none", "running", "killed", "ended"
    u_halt,        \* per worker: messages in its halt channel
    u_pc,          \* the caller: "idle", "joining" (in stop), "panicked"
    u_join         \* the worker stop() is joining, 0 if none

lifeVars == <<u_kind, u_ephemeral, thread_handle, u_workers, u_halt, u_pc, u_join>>

\* --- the removal loop that ends a read pass or a write pass
VARIABLES
    rm_in,         \* the live set (a Vec of distinct clients) before the loop
    rm_marks,      \* the indices the pass pushed onto to_remove
    rm_out,        \* the live set after the loop
    rm_pc          \* "pass" before the loop has run, "done" after

removeVars == <<rm_in, rm_marks, rm_out, rm_pc>>

\* --- Configs::apply on a map of named configs
VARIABLES
    a_map,         \* map: config name -> its general.derives ("none" if absent)
    a_stack,       \* the call stack of apply: frames [name, at], newest last
    a_merged,      \* the names merged into s so far, in order
    a_warned,      \* the names the recursion warning was logged for
    a_pc           \* "run", "returned", "overflow" (the stack is exhausted)

applyVars == <<a_map, a_stack, a_merged, a_warned, a_pc>>

\* --- main_try from flashing onwards, and entry around it
VARIABLES
    m_cfg,         \* config: which of flashing, reset, gdb, logging are enabled
    m_pc,          \* "flash", "reset", "gdb", "logging", "returned_ok",
                   \* "returned_err", "entry_done", "exited"
    m_handles,     \* the Vec handles, as the threads its JoinHandles name
    m_threads      \* per thread: "none", "running", "finished", "killed"

mainVars == <<m_cfg, m_pc, m_handles, m_threads>>

vars == <<sinkVars, stdioVars, cascadeVars, routerVars, lifeVars, removeVars,
          applyVars, mainVars>>
notMain == <<sinkVars, stdioVars, cascadeVars, routerVars, lifeVars, removeVars,
             applyVars>>
notApply == <<sinkVars, stdioVars, cascadeVars, routerVars, lifeVars, removeVars,
    mainVars>>
notSink == <<stdioVars, cascadeVars, routerVars, lifeVars, removeVars, applyVars,
    mainVars>>
notStdio == <<sinkVars, cascadeVars, routerVars, lifeVars, removeVars, applyVars,
    mainVars>>
notCascade == <<sinkVars, stdioVars, routerVars, lifeVars, removeVars, applyVars,
    mainVars>>
notRouter == <<sinkVars, stdioVars, cascadeVars, lifeVars, removeVars, applyVars,
    mainVars>>
notLife == <<sinkVars, stdioVars, cascadeVars, routerVars, removeVars, applyVars,
    mainVars>>
notRemove == <<sinkVars, stdioVars, cascadeVars, routerVars, lifeVars, applyVars,
    mainVars>>

Clients == 1..MaxClients

\* The std::io::ErrorKind values the sinks treat as a disconnect.  Results
\* below also use "WouldBlock" and "Interrupted" (one of the other kinds).
DisconnectClass == {"ConnectionReset", "ConnectionAborted", "TimedOut", "BrokenPipe"}

Ok == [t |-> "Ok", kind |-> "-"]
Short == [t |-> "Short", kind |-> "-"]        \* write returned Ok(n), n < len
Io(k) == [t |-> "Io", kind |-> k]             \* io::Error / tungstenite::Error::Io
Closed == [t |-> "Closed", kind |-> "-"]      \* tungstenite::Error::ConnectionClosed
Other == [t |-> "Other", kind |-> "-"]        \* any other tungstenite::Error

\* What peers send: a chunk of bytes on TCP, a frame on a WebSocket.
TcpChunks == {<<255>>}
WsFrames == {Text(NullLit), Ping}

\* ------------------------------------------------------------ Vec helpers
\* Vec::swap_remove(i): the last element takes the place of element i.
swap_remove(s, i) ==
    [j \in 1..(Len(s) - 1) |-> IF j = i THEN s[Len(s)] ELSE s[j]]

\* The same loop without .rev(): the indices taken in ascending order.
RECURSIVE remove_closed_ascending(_, _)
remove_closed_ascending(s, to_remove) ==
    IF to_remove = <<>> THEN s
    ELSE remove_closed_ascending(swap_remove(s, to_remove[1]),
                                 SubSeq(to_remove, 2, Len(to_remove)))

\* for i in to_remove.into_iter().rev() { sockets.swap_remove(i); }
RECURSIVE remove_closed(_, _)
remove_closed(s, to_remove) ==
    IF to_remove = <<>> THEN s
    ELSE remove_closed(swap_remove(s, to_remove[Len(to_remove)]),
                       SubSeq(to_remove, 1, Len(to_remove) - 1))

\* ----------------------------------------------------- error classification
\* tcp.rs 47-51 and 110-114: the arm that pushes i onto to_remove.
tcp_removes_forgetful(r) ==
    r.t = "Io" /\ r.kind \in (DisconnectClass \ {"BrokenPipe"})

\* An arm that also takes would-block for a disconnect.
tcp_removes_eager(r) ==
    r.t = "Io" /\ r.kind \in (DisconnectClass \cup {"WouldBlock"})

tcp_removes(r) == r.t = "Io" /\ r.kind \in DisconnectClass

\* websocket.rs 47-50 and 105-108: only Error::ConnectionClosed removes.
ws_removes(r) == r.t = "Closed"

removes(k, r) == IF k = "tcp" THEN tcp_removes(r) ELSE ws_removes(r)

\* A result that is an I/O error of the disconnect class (reset, aborted,
\* timed out, broken pipe), however the sink goes on to treat it.
disconnected(r) == r.t = "Io" /\ r.kind \in DisconnectClass

\* to_remove after a pass with results o over n sockets: ascending indices.
RECURSIVE to_remove_of(_, _, _)
to_remove_of(k, o, n) ==
    IF n = 0 THEN <<>>
    ELSE LET rest == to_remove_of(k, o, n - 1) IN
      IF removes(k, o[n]) THEN Append(rest, n) ELSE rest

\* ------------------------------------------------- what the sockets report
\* The result of one non-blocking read on client c's socket, as the
\* operating system or tungstenite may report it for the peer's state.
TcpReadResults(c) ==
    IF peer[c] = "reset" THEN {Io(k) : k \in DisconnectClass}
    ELSE {Io("Interrupted")}
         \cup (IF pend[c] # <<>> \/ peer[c] = "shut" \/ BufLen = 0 THEN {Ok} ELSE {})
         \cup (IF pend[c] = <<>> /\ peer[c] = "open" THEN {Io("WouldBlock")} ELSE {})

WsReadResults(c) ==
    IF peer[c] = "reset" THEN {Io(k) : k \in DisconnectClass}
    ELSE IF pend[c] # <<>> THEN {Ok, Other}
    ELSE IF peer[c] = "shut" THEN {Closed}
    ELSE {Io("WouldBlock"), Other}

ReadResults(c) == IF sink = "tcp" THEN TcpReadResults(c) ELSE WsReadResults(c)

\* The result of one write of a whole value on client c's socket.
TcpWriteResults(c) ==
    IF peer[c] = "reset" THEN {Io(k) : k \in DisconnectClass}
    ELSE IF peer[c] = "shut" THEN {Ok, Io("BrokenPipe")}
    ELSE {Ok, Short, Io("WouldBlock"), Io("Interrupted")}

WsWriteResults(c) ==
    IF peer[c] = "reset" THEN {Io(k) : k \in DisconnectClass}
    ELSE IF peer[c] = "shut" THEN {Closed, Other}
    ELSE {Ok, Io("WouldBlock"), Other}

WriteResults(c) == IF sink = "tcp" THEN TcpWriteResults(c) ELSE WsWriteResults(c)

\* One result per socket of the live set, in Vec order.
ResultFns(s, R(_)) ==
    {o \in [1..Len(s) -> UNION {R(s[i]) : i \in 1..Len(s)}] :
        \A i \in 1..Len(s) : o[i] \in R(s[i])}

\* ----------------------------------------------------- read_from_all_sockets
\* The value one successful read on client c yields, and what it consumes.
\* tcp.rs 86-87: the read is handed a buffer of BufLen bytes.
read_count(c) == Min(Len(pend[c]), BufLen)

read_value(c) ==
    IF sink = "tcp" THEN tcp_classify(pend[c], read_count(c))
    ELSE ws_classify(Head(pend[c]))

read_rest(c) ==
    IF sink = "tcp" THEN Drop(pend[c], read_count(c)) ELSE Tail(pend[c])

\* sender.send(v): the model keeps the first MaxOut values of the queue.
send(q, v) == IF Len(q) < MaxOut THEN Append(q, v) ELSE q

\* The queue after the pass has handled sockets 1..n with results o.
RECURSIVE read_sends(_, _, _)
read_sends(s, o, n) ==
    IF n = 0 THEN outbound
    ELSE LET q == read_sends(s, o, n - 1)
             c == s[n]
         IN IF o[n].t = "Ok" /\ read_value(c).tag # "none"
            THEN send(q, [from |-> c, seq |-> nread[c] + 1, val |-> read_value(c)])
            ELSE q

\* tcp.rs 78-138, websocket.rs 76-131.
read_from_all_sockets(o) ==
    LET n == Len(sockets)
        gone == {sockets[i] : i \in {j \in 1..n : removes(sink, o[j])}}
        got == {sockets[i] : i \in {j \in 1..n : o[j].t = "Ok"}}
    IN /\ outbound' = read_sends(sockets, o, n)
       /\ nread' = [c \in Clients |->
                      Cardinality({i \in DOMAIN outbound' : outbound'[i].from = c})]
       /\ pend' = [c \in Clients |->
                      IF c \in gone THEN <<>>
                      ELSE IF c \in got THEN read_rest(c) ELSE pend[c]]
       /\ sockets' = remove_closed(sockets, to_remove_of(sink, o, n))
       /\ peer' = [c \in Clients |-> IF c \in gone THEN "gone" ELSE peer[c]]
       /\ disc' = disc \cup {sockets[i] : i \in {j \in 1..n : disconnected(o[j])}}

\* ------------------------------------------------------ write_to_all_sockets
written(r) == IF r.t = "Ok" THEN "full" ELSE IF r.t = "Short" THEN "part" ELSE "none"

\* A broadcast that also reaches the connections waiting in the listener's
\* backlog, which are not in the live set.
write_to_all_connected(update, o) ==
    LET n == Len(sockets)
        gone == {sockets[i] : i \in {j \in 1..n : removes(sink, o[j])}}
        at(c) == CHOOSE i \in 1..n : sockets[i] = c
    IN /\ wlog' = [c \in Clients |->
                     IF c \in Range(sockets)
                     THEN Append(wlog[c], [id |-> update.id, res |-> written(o[at(c)])])
                     ELSE IF c \in Range(backlog)
                     THEN Append(wlog[c], [id |-> update.id, res |-> "full"])
                     ELSE wlog[c]]
       /\ sockets' = remove_closed(sockets, to_remove_of(sink, o, n))
       /\ peer' = [c \in Clients |-> IF c \in gone THEN "gone" ELSE peer[c]]
       /\ pend' = [c \in Clients |-> IF c \in gone THEN <<>> ELSE pend[c]]
       /\ disc' = disc \cup {sockets[i] : i \in {j \in 1..n : disconnected(o[j])}}

\* tcp.rs 31-75, websocket.rs 29-73.
write_to_all_sockets(update, o) ==
    LET n == Len(sockets)
        gone == {sockets[i] : i \in {j \in 1..n : removes(sink, o[j])}}
        at(c) == CHOOSE i \in 1..n : sockets[i] = c
    IN /\ wlog' = [c \in Clients |->
                     IF c \in Range(sockets)
                     THEN Append(wlog[c], [id |-> update.id, res |-> written(o[at(c)])])
                     ELSE wlog[c]]
       /\ sockets' = remove_closed(sockets, to_remove_of(sink, o, n))
       /\ peer' = [c \in Clients |-> IF c \in gone THEN "gone" ELSE peer[c]]
       /\ pend' = [c \in Clients |-> IF c \in gone THEN <<>> ELSE pend[c]]
       /\ disc' = disc \cup {sockets[i] : i \in {j \in 1..n : disconnected(o[j])}}

\* ========================================================================
\* The TCP / WebSocket worker: the closure spawned by start()
\* (tcp.rs 158-206, websocket.rs 151-209)
\* ========================================================================
\* inbound.try_recv(): the oldest pending value and the queue without it.
try_recv_newest(q) == [val |-> q[Len(q)], rest |-> SubSeq(q, 1, Len(q) - 1)]

try_recv(q) == [val |-> Head(q), rest |-> Tail(q)]

\* tcp.rs 162-164, websocket.rs 155-157: if halt_rx.try_recv().is_ok() return.
HaltCheck ==
    /\ pc = "halt"
    /\ IF halt > 0
       THEN /\ halt' = halt - 1
            /\ pc' = "done"
       ELSE /\ pc' = "accept"
            /\ UNCHANGED halt
    /\ UNCHANGED <<sink, accept_nb, sockets, backlog, hs, peer, pend, inbound,
                   outbound, stop_state, next_id, wlog, disc, nread>>
    /\ UNCHANGED notSink

\* tcp.rs 168-176: Some(Ok(stream)) => set_nonblocking, sockets.push.
\* websocket.rs 161-165: Some(Ok(stream)) => accept(stream), the handshake.
AcceptOk ==
    /\ pc = "accept"
    /\ backlog # <<>>
    /\ backlog' = Tail(backlog)
    /\ IF sink = "tcp"
       THEN /\ sockets' = Append(sockets, Head(backlog))
            /\ pc' = "read"
            /\ UNCHANGED hs
       ELSE /\ hs' = Head(backlog)
            /\ pc' = "handshake"
            /\ UNCHANGED sockets
    /\ UNCHANGED <<sink, accept_nb, peer, pend, inbound, outbound, halt,
                   stop_state, next_id, wlog, disc, nread>>
    /\ UNCHANGED notSink

\* tcp.rs 177-185, websocket.rs 180-188: Some(Err(err)), would-block or
\* logged.  (Incoming::next never returns None, so that arm is not a step.)
AcceptErr ==
    /\ pc = "accept"
    /\ pc' = "read"
    /\ UNCHANGED <<sink, accept_nb, sockets, backlog, hs, peer, pend, inbound,
                   outbound, halt, stop_state, next_id, wlog, disc, nread>>
    /\ UNCHANGED notSink

\* websocket.rs 166-172: Ok(websocket) => set_nonblocking, sockets.push.
\* The client's request has arrived.
HandshakeOk ==
    /\ pc = "handshake"
    /\ peer[hs] = "open"
    /\ sockets' = Append(sockets, hs)
    /\ hs' = 0
    /\ pc' = "read"
    /\ UNCHANGED <<sink, accept_nb, backlog, peer, pend, inbound, outbound, halt,
                   stop_state, next_id, wlog, disc, nread>>
    /\ UNCHANGED notSink

\* websocket.rs 174-177: Err(HandshakeError::Failure(err)) => log; the stream
\* is dropped.  A bad request, or a peer that closed before sending one.
HandshakeFailure ==
    /\ pc = "handshake"
    /\ peer[hs] \in {"open", "shut", "reset"}
    /\ peer' = [peer EXCEPT ![hs] = "gone"]
    /\ pend' = [pend EXCEPT ![hs] = <<>>]
    /\ hs' = 0
    /\ pc' = "read"
    /\ UNCHANGED <<sink, accept_nb, sockets, backlog, inbound, outbound, halt,
                   stop_state, next_id, wlog, disc, nread>>
    /\ UNCHANGED notSink

\* websocket.rs 173: Err(HandshakeError::Interrupted(_)) => {}.  Only a
\* non-blocking stream reports it; the mid-handshake value, and with it the
\* stream, is dropped.  On a blocking stream accept(stream) waits instead.
HandshakeInterrupted ==
    /\ pc = "handshake"
    /\ accept_nb
    /\ peer[hs] = "syn"
    /\ peer' = [peer EXCEPT ![hs] = "gone"]
    /\ pend' = [pend EXCEPT ![hs] = <<>>]
    /\ hs' = 0
    /\ pc' = "read"
    /\ UNCHANGED <<sink, accept_nb, sockets, backlog, inbound, outbound, halt,
                   stop_state, next_id, wlog, disc, nread>>
    /\ UNCHANGED notSink

\* tcp.rs 193, websocket.rs 196.
ReadAll ==
    /\ pc = "read"
    /\ \E o \in ResultFns(sockets, ReadResults) : read_from_all_sockets(o)
    /\ pc' = "write"
    /\ UNCHANGED <<sink, accept_nb, backlog, hs, inbound, halt, stop_state,
                   next_id, wlog>>
    /\ UNCHANGED notSink

\* tcp.rs 196-204, websocket.rs 199-207: one pending value to every socket,
\* then sleep and loop.
WriteStep ==
    /\ pc = "write"
    /\ IF inbound # <<>>
       THEN /\ inbound' = try_recv(inbound).rest
            /\ \E o \in ResultFns(sockets, WriteResults) :
                  write_to_all_sockets(try_recv(inbound).val, o)
       ELSE UNCHANGED <<inbound, wlog, sockets, peer, pend, disc>>
    /\ pc' = "halt"
    /\ UNCHANGED <<sink, accept_nb, backlog, hs, outbound, halt, stop_state,
                   next_id, nread>>
    /\ UNCHANGED notSink

\* One step of the worker thread.
Worker ==
    \/ HaltCheck \/ AcceptOk \/ AcceptErr
    \/ HandshakeOk \/ HandshakeFailure \/ HandshakeInterrupted
    \/ ReadAll \/ WriteStep

\* ------------------------------------------------------------- the caller
\* UpdaterChannel::tx().send(value).
CallerSend ==
    /\ next_id <= MaxVals
    /\ inbound' = Append(inbound, [id |-> next_id])
    /\ next_id' = next_id + 1
    /\ UNCHANGED <<sink, accept_nb, pc, sockets, backlog, hs, peer, pend,
                   outbound, halt, stop_state, wlog, disc, nread>>
    /\ UNCHANGED notSink

\* tcp.rs 213-221, websocket.rs 216-224: take the handle, h.1.send(()).
StopSend ==
    /\ stop_state = "running"
    /\ halt' = halt + 1
    /\ stop_state' = "joining"
    /\ UNCHANGED <<sink, accept_nb, pc, sockets, backlog, hs, peer, pend,
                   inbound, outbound, next_id, wlog, disc, nread>>
    /\ UNCHANGED notSink

\* tcp.rs 221-228: h.0.join() returns once the closure has; then Ok(()).
StopJoin ==
    /\ stop_state = "joining"
    /\ pc = "done"
    /\ stop_state' = "ok"
    /\ UNCHANGED <<sink, accept_nb, pc, sockets, backlog, hs, peer, pend,
                   inbound, outbound, halt, next_id, wlog, disc, nread>>
    /\ UNCHANGED notSink

\* -------------------------------------------------------------- the peers
\* A peer connects: the connection waits in the listener's backlog.  A
\* WebSocket client has yet to send its opening request.
ClientConnect ==
    /\ \E c \in Clients :
         /\ peer[c] = "none"
         /\ \A d \in Clients : d < c => peer[d] # "none"
         /\ peer' = [peer EXCEPT ![c] = IF sink = "tcp" THEN "open" ELSE "syn"]
         /\ backlog' = Append(backlog, c)
    /\ UNCHANGED <<sink, accept_nb, pc, sockets, hs, pend, inbound, outbound,
                   halt, stop_state, next_id, wlog, disc, nread>>
    /\ UNCHANGED notSink

\* A WebSocket client sends its opening request.
ClientRequest ==
    /\ \E c \in Clients :
         /\ peer[c] = "syn"
         /\ peer' = [peer EXCEPT ![c] = "open"]
    /\ UNCHANGED <<sink, accept_nb, pc, sockets, backlog, hs, pend, inbound,
                   outbound, halt, stop_state, next_id, wlog, disc, nread>>
    /\ UNCHANGED notSink

\* A connected peer sends data.
ClientSend ==
    /\ \E c \in Clients :
         /\ peer[c] = "open"
         /\ pend[c] = <<>>
         /\ IF sink = "tcp"
            THEN \E b \in TcpChunks : pend' = [pend EXCEPT ![c] = b]
            ELSE \E f \in WsFrames : pend' = [pend EXCEPT ![c] = <<f>>]
    /\ UNCHANGED <<sink, accept_nb, pc, sockets, backlog, hs, peer, inbound,
                   outbound, halt, stop_state, next_id, wlog, disc, nread>>
    /\ UNCHANGED notSink

\* A peer closes in order (FIN, or a WebSocket close): what it sent before
\* can still be read.
ClientShut ==
    /\ \E c \in Clients :
         /\ peer[c] \in {"syn", "open"}
         /\ peer' = [peer EXCEPT ![c] = "shut"]
    /\ UNCHANGED <<sink, accept_nb, pc, sockets, backlog, hs, pend, inbound,
                   outbound, halt, stop_state, next_id, wlog, disc, nread>>
    /\ UNCHANGED notSink

\* A connection is reset: unread data is discarded with it.
ClientReset ==
    /\ \E c \in Clients :
         /\ peer[c] \in {"syn", "open", "shut"}
         /\ peer' = [peer EXCEPT ![c] = "reset"]
         /\ pend' = [pend EXCEPT ![c] = <<>>]
    /\ UNCHANGED <<sink, accept_nb, pc, sockets, backlog, hs, inbound,
                   outbound, halt, stop_state, next_id, wlog, disc, nread>>
    /\ UNCHANGED notSink

SinkInit ==
    /\ sink \in {"tcp", "ws"}
    /\ accept_nb \in BOOLEAN
    /\ (sink = "tcp" => accept_nb = FALSE)
    /\ pc = "halt"
    /\ sockets = <<>>
    /\ backlog = <<>>
    /\ hs = 0
    /\ peer = [c \in Clients |-> "none"]
    /\ pend = [c \in Clients |-> <<>>]
    /\ inbound = <<>>
    /\ outbound = <<>>
    /\ halt = 0
    /\ stop_state = "running"
    /\ next_id = 1
    /\ wlog = [c \in Clients |-> <<>>]
    /\ disc = {}
    /\ nread = [c \in Clients |-> 0]

SinkNext ==
    \/ HaltCheck \/ AcceptOk \/ AcceptErr
    \/ HandshakeOk \/ HandshakeFailure \/ HandshakeInterrupted
    \/ ReadAll \/ WriteStep
    \/ CallerSend \/ StopSend \/ StopJoin
    \/ ClientConnect \/ ClientRequest \/ ClientSend \/ ClientShut \/ ClientReset

\* ========================================================================
\* The Process sink: the closure spawned by StdioUpdater::start()
\* (stdio.rs 133-160), its caller and the child process
\* ========================================================================
\* What the child writes to its standard output.
ChildChunks == {NullLit, <<255>>}

\* stdout.read(&mut buffer) on the pipe: with room for BufLen bytes it returns
\* at once when BufLen = 0, when data is there, or at end of file.  A pipe read
\* reports no disconnect-class error.
StdoutReadResults ==
    {Io("Interrupted")}
    \cup (IF p_stdout # <<>> \/ child # "running" \/ BufLen = 0 THEN {Ok} ELSE {})

\* stdin.write(bytes): a pipe whose read end is gone (the child closed its
\* standard input, or is no more) reports BrokenPipe.
StdinWriteResults ==
    IF child = "running" /\ p_in_open
    THEN {Ok, Short, Io("Interrupted")}
    ELSE {Io("BrokenPipe")}

\* stdio.rs 49-56 and 98-105: the arms that end the loop (return false).
stdio_ends(r) == r.t = "Io" /\ r.kind \in DisconnectClass

\* stdio.rs 136-138: if halt_rx.try_recv().is_ok() { child.kill().unwrap(); }
\* The loop goes on to the read.
p_HaltCheck ==
    /\ p_pc = "halt"
    /\ IF p_halt > 0
       THEN /\ p_halt' = p_halt - 1
            /\ child' = "killed"
            /\ p_stdout' = <<>>
       ELSE UNCHANGED <<p_halt, child, p_stdout>>
    /\ p_pc' = "read"
    /\ UNCHANGED <<p_inbound, p_outbound, p_stop, p_next, p_stdin, p_in_open>>
    /\ UNCHANGED notStdio

\* stdio.rs 66-112 and 141-144: one read, the cascade, one send; a
\* disconnect-class error returns from the closure.
p_Read ==
    /\ p_pc = "read"
    /\ \E r \in StdoutReadResults :
         LET count == Min(Len(p_stdout), BufLen) IN
           IF r.t = "Ok"
           THEN /\ p_outbound' = send(p_outbound, stdio_classify(p_stdout, count))
                /\ p_stdout' = Drop(p_stdout, count)
                /\ p_pc' = "write"
           ELSE /\ p_pc' = IF stdio_ends(r) THEN "done" ELSE "write"
                /\ UNCHANGED <<p_outbound, p_stdout>>
    /\ UNCHANGED <<child, p_inbound, p_halt, p_stop, p_next, p_stdin, p_in_open>>
    /\ UNCHANGED notStdio

\* stdio.rs 34-63 and 147-158: one pending value to the child's stdin; a
\* disconnect-class error returns from the closure; else sleep and loop.
p_Write ==
    /\ p_pc = "write"
    /\ IF p_inbound # <<>>
       THEN /\ p_inbound' = try_recv(p_inbound).rest
            /\ \E r \in StdinWriteResults :
                 /\ p_stdin' = Append(p_stdin, [id |-> try_recv(p_inbound).val.id,
                                                res |-> written(r)])
                 /\ p_pc' = IF stdio_ends(r) THEN "done" ELSE "halt"
       ELSE /\ p_pc' = "halt"
            /\ UNCHANGED <<p_inbound, p_stdin>>
    /\ UNCHANGED <<child, p_stdout, p_outbound, p_halt, p_stop, p_next, p_in_open>>
    /\ UNCHANGED notStdio

\* UpdaterChannel::tx().send(value).
p_CallerSend ==
    /\ p_next <= MaxVals
    /\ p_inbound' = Append(p_inbound, [id |-> p_next])
    /\ p_next' = p_next + 1
    /\ UNCHANGED <<p_pc, child, p_stdout, p_outbound, p_halt, p_stop, p_stdin, p_in_open>>
    /\ UNCHANGED notStdio

\* stdio.rs 167-175: take the handle, h.1.send(()).unwrap().  The send needs
\* the worker's receiver, which lives as long as the closure runs.
p_StopSend ==
    /\ p_stop = "running"
    /\ p_pc # "done"
    /\ p_halt' = p_halt + 1
    /\ p_stop' = "joining"
    /\ UNCHANGED <<p_pc, child, p_stdout, p_inbound, p_outbound, p_next, p_stdin, p_in_open>>
    /\ UNCHANGED notStdio

\* stdio.rs 175-182: h.0.join() returns once the closure has; then Ok(()).
p_StopJoin ==
    /\ p_stop = "joining"
    /\ p_pc = "done"
    /\ p_stop' = "ok"
    /\ UNCHANGED <<p_pc, child, p_stdout, p_inbound, p_outbound, p_halt, p_next,
                   p_stdin, p_in_open>>
    /\ UNCHANGED notStdio

\* The child writes to its standard output.
ChildWrite ==
    /\ child = "running"
    /\ p_stdout = <<>>
    /\ \E b \in ChildChunks : p_stdout' = b
    /\ UNCHANGED <<p_pc, child, p_inbound, p_outbound, p_halt, p_stop, p_next,
                   p_stdin, p_in_open>>
    /\ UNCHANGED notStdio

\* The child exits on its own; what it wrote can still be read.
ChildExit ==
    /\ child = "running"
    /\ child' = "exited"
    /\ UNCHANGED <<p_pc, p_stdout, p_inbound, p_outbound, p_halt, p_stop, p_next,
                   p_stdin, p_in_open>>
    /\ UNCHANGED notStdio

\* The child closes its standard input and runs on.
ChildCloseStdin ==
    /\ child = "running"
    /\ p_in_open
    /\ p_in_open' = FALSE
    /\ UNCHANGED <<p_pc, child, p_stdout, p_inbound, p_outbound, p_halt, p_stop,
                   p_next, p_stdin>>
    /\ UNCHANGED notStdio

StdioInit ==
    /\ p_pc = "halt"
    /\ child = "running"
    /\ p_stdout = <<>>
    /\ p_inbound = <<>>
    /\ p_outbound = <<>>
    /\ p_halt = 0
    /\ p_stop = "running"
    /\ p_next = 1
    /\ p_stdin = <<>>
    /\ p_in_open = TRUE

StdioNext ==
    \/ p_HaltCheck \/ p_Read \/ p_Write
    \/ p_CallerSend \/ p_StopSend \/ p_StopJoin
    \/ ChildWrite \/ ChildExit \/ ChildCloseStdin

\* ========================================================================
\* The receive-path cascade on one input
\* ========================================================================
\* Bytes the inputs are drawn from: space, n, u, l, the two bytes of U+00E9,
\* and a byte no UTF-8 text holds.
CascadeBytes == {32, 110, 117, 108, 195, 169, 255}
CascadeInputs == UNION {[1..n -> CascadeBytes] : n \in 0..MaxLen}

\* tcp.rs 87-108: the TCP sink has read c_in.
ClassifyTcp ==
    /\ c_res.tcp = NoValue
    /\ c_res' = [c_res EXCEPT !.tcp = tcp_classify(c_in, Len(c_in))]
    /\ UNCHANGED c_in
    /\ UNCHANGED notCascade

\* stdio.rs 72-96: the Process sink has read c_in.
ClassifyStdio ==
    /\ c_res.stdio = NoValue
    /\ c_res' = [c_res EXCEPT !.stdio = stdio_classify(c_in, Len(c_in))]
    /\ UNCHANGED c_in
    /\ UNCHANGED notCascade

\* websocket.rs 84-99: the WebSocket sink has read c_in as a text frame
\* (a text frame holds valid UTF-8).
ClassifyWsText ==
    /\ c_res.ws_text = NoValue
    /\ from_utf8_ok(c_in)
    /\ c_res' = [c_res EXCEPT !.ws_text = ws_classify(Text(c_in))]
    /\ UNCHANGED c_in
    /\ UNCHANGED notCascade

\* websocket.rs 100-102: the WebSocket sink has read c_in as a binary frame.
ClassifyWsBinary ==
    /\ c_res.ws_binary = NoValue
    /\ c_res' = [c_res EXCEPT !.ws_binary = ws_classify(Binary(c_in))]
    /\ UNCHANGED c_in
    /\ UNCHANGED notCascade

CascadeRest ==
    c_res = [tcp |-> NoValue, stdio |-> NoValue, ws_text |-> NoValue,
             ws_binary |-> NoValue]
CascadeStart == c_in \in CascadeInputs /\ CascadeRest

\* ========================================================================
\* The router: run_logging (logging.rs 25-149)
\* ========================================================================
\* config/mod.rs 388-393: enum LinkKind { Command, Tcp, WebSocket }.
Command(c) == [k |-> "Command", arg |-> c]
Tcp(a) == [k |-> "Tcp", arg |-> a]
WebSocket(a) == [k |-> "WebSocket", arg |-> a]
Links == {Command("cat"), Tcp("127.0.0.1:3000"), WebSocket("127.0.0.1:3001")}

\* config/mod.rs 395-414: ChannelKind::Rtt { up, down, mode }, ::Itm { mode }.
RttModes == {"Raw", "String", "StringJson", "Defmt", "DefmtJson"}
Rtt(up, mode) == [k |-> "Rtt", up |-> up, mode |-> mode]
Itm == [k |-> "Itm", up |-> 0, mode |-> "Raw"]
KindChoices == {Rtt(0, m) : m \in RttModes} \cup {Rtt(1, "Raw"), Itm}

\* The up-channels the target has.
TargetUp == {0}
\* What one read of an up-channel returns.
PollData == {<<>>, <<104>>, <<255>>}

KindLists == UNION {[1..n -> KindChoices] : n \in 1..MaxKinds}
Channel == [link : Links, kinds : KindLists]
ChannelConfigs == UNION {[1..n -> Channel] : n \in 1..MaxChannels}

\* String::from_utf8_lossy: each maximal ill-formed part becomes U+FFFD.
Replacement == <<239, 191, 189>>

BadLen(b) ==
    LET b1 == b[1]
        second_ok ==
            /\ Len(b) >= 2 /\ IsCont(b[2])
            /\ (b1 = 224 => b[2] >= 160) /\ (b1 = 237 => b[2] <= 159)
            /\ (b1 = 240 => b[2] >= 144) /\ (b1 = 244 => b[2] <= 143)
    IN IF b1 >= 224 /\ b1 <= 239 THEN (IF second_ok THEN 2 ELSE 1)
       ELSE IF b1 >= 240 /\ b1 <= 244
         THEN (IF second_ok
               THEN (IF Len(b) >= 3 /\ IsCont(b[3]) THEN 3 ELSE 2)
               ELSE 1)
       ELSE 1

RECURSIVE from_utf8_lossy(_)
from_utf8_lossy(b) ==
    IF b = <<>> THEN <<>>
    ELSE LET n == Utf8Head(b) IN
      IF n > 0 THEN SubSeq(b, 1, n) \o from_utf8_lossy(SubSeq(b, n + 1, Len(b)))
      ELSE Replacement \o from_utf8_lossy(SubSeq(b, BadLen(b) + 1, Len(b)))

\* A listener already bound to the address of link l (TcpListener::bind
\* then fails, and the unwrap panics).
AddressInUse(l) ==
    \E j \in DOMAIN started :
        started[j].k \in {"Tcp", "WebSocket"} /\ started[j].arg = l.arg

\* logging.rs 31-41, one turn of the loop: start() for the channel's link,
\* then updaters.insert(link, channel), which replaces an entry for the same
\* link (and drops the replaced channel with what its queue held).  The
\* updater object, which owns the thread handle and the halt sender, is a
\* temporary of the match arm: made, and dropped when the statement ends.
\* start() spawns the child (stdio.rs 125-130) or binds the listener
\* (tcp.rs 154, websocket.rs 147).
SetupStart ==
    /\ r_pc = "setup"
    /\ r_i <= Len(channels)
    /\ LET link == channels[r_i].link IN
         /\ link.k # "Command" => ~AddressInUse(link)
         /\ started' = Append(started, link)
         /\ updaters' = [updaters EXCEPT ![link] = Len(started) + 1]
         /\ handles' = (handles \cup {Len(started) + 1}) \ {Len(started) + 1}
         /\ rx_q' = [rx_q EXCEPT ![link] = 0]
    /\ r_i' = r_i + 1
    /\ UNCHANGED <<channels, r_pc, attempt, init_logs, fail_logs, fails, rtt,
                   r_k, last_poll, tx>>
    /\ UNCHANGED notRouter

\* stdio.rs 130: spawn().expect(..) fails; tcp.rs 154, websocket.rs 147:
\* bind(..).unwrap() fails.  run_logging panics.
SetupPanic ==
    /\ r_pc = "setup"
    /\ r_i <= Len(channels)
    /\ LET link == channels[r_i].link IN
         link.k # "Command" => AddressInUse(link)
    /\ r_pc' = "panicked"
    /\ rx_q' = [l \in Links |-> 0]
    /\ UNCHANGED <<channels, r_i, started, updaters, attempt, init_logs,
                   fail_logs, fails, rtt, r_k, last_poll, tx,
                   handles>>
    /\ UNCHANGED notRouter

\* logging.rs 45-64: does a configured kind ask for a trace-decode mode.
NeedsDefmt ==
    \E i \in DOMAIN channels : \E j \in DOMAIN channels[i].kinds :
        /\ channels[i].kinds[j].k = "Rtt"
        /\ channels[i].kinds[j].mode \in {"Defmt", "DefmtJson"}

\* logging.rs 44-68: the table is loaded if needed, and the thread spawned.
DefmtOk ==
    /\ r_pc = "setup"
    /\ r_i > Len(channels)
    /\ r_pc' = "attach"
    /\ UNCHANGED <<channels, r_i, started, updaters, attempt, init_logs,
                   fail_logs, fails, rtt, r_k, last_poll, tx,
                   handles, rx_q>>
    /\ UNCHANGED notRouter

\* logging.rs 55 and 158-162: create_defmt_state(..)? returns the error.
DefmtErr ==
    /\ r_pc = "setup"
    /\ r_i > Len(channels)
    /\ NeedsDefmt
    /\ r_pc' = "returned_err"
    /\ rx_q' = [l \in Links |-> 0]
    /\ UNCHANGED <<channels, r_i, started, updaters, attempt, init_logs,
                   fail_logs, fails, rtt, r_k, last_poll, tx,
                   handles>>
    /\ UNCHANGED notRouter

\* logging.rs 75-96: one attempt, and Rtt::attach_region returns Ok.
AttachOk ==
    /\ r_pc = "attach"
    /\ init_logs' = init_logs + 1
    /\ attempt' = attempt + 1
    /\ rtt' = "Attached"
    /\ r_pc' = "poll"
    /\ r_k' = <<1, 1>>
    /\ UNCHANGED <<channels, r_i, started, updaters, fail_logs, fails,
                   last_poll, tx,
                   handles, rx_q>>
    /\ UNCHANGED notRouter

\* A thread that returns the error of a failed attach, for its join handle
\* to hand out, and does not try again.
AttachGiveUp ==
    /\ r_pc = "attach"
    /\ fails < MaxFails
    /\ init_logs' = init_logs + 1
    /\ attempt' = attempt + 1
    /\ fails' = fails + 1
    /\ fail_logs' = fail_logs + 1
    /\ r_pc' = "returned_err"
    /\ UNCHANGED <<channels, r_i, started, updaters, rtt, r_k, last_poll,
                   tx, handles, rx_q>>
    /\ UNCHANGED notRouter

\* logging.rs 75-92 and 140-146: one attempt, and attach_region returns Err:
\* the Err arm logs, the line after the match logs again, then sleep, loop.
AttachFail ==
    /\ r_pc = "attach"
    /\ fails < MaxFails
    /\ init_logs' = init_logs + 1
    /\ attempt' = attempt + 1
    /\ fails' = fails + 1
    /\ fail_logs' = fail_logs + 1 + 1
    /\ UNCHANGED <<channels, r_pc, r_i, started, updaters, rtt, r_k, last_poll,
                   tx,
                   handles, rx_q>>
    /\ UNCHANGED notRouter

\* tx().send(value) on the channel updaters holds for the link.
r_send(q, ci, v) ==
    IF Len(q) < MaxOut
    THEN Append(q, [to |-> updaters[channels[ci].link], ch |-> ci, val |-> v])
    ELSE q

\* The loop position after <<ci, ki>>; after the last one, sleep and restart.
next_kind(ci, ki) ==
    IF ki < Len(channels[ci].kinds) THEN <<ci, ki + 1>>
    ELSE IF ci < Len(channels) THEN <<ci + 1, 1>>
    ELSE <<1, 1>>

\* logging.rs 115-131: the value a mode makes of the data, sent to the sink.
dispatch(q, ci, mode, data) ==
    IF mode = "Raw" THEN r_send(q, ci, Bytes(data))
    ELSE IF mode = "String" THEN r_send(q, ci, String(from_utf8_lossy(data)))
    ELSE q

\* logging.rs 99-136, one kind of one channel; poll_rtt is logging.rs 204-217:
\* a failed read is logged and yields no bytes.
PollKind ==
    /\ r_pc = "poll"
    /\ LET ci == r_k[1]
           kind == channels[ci].kinds[r_k[2]]
       IN /\ IF kind.k = "Rtt"
             THEN IF kind.up \in TargetUp
                  THEN \/ \E data \in PollData :
                            /\ tx' = dispatch(tx, ci, kind.mode, data)
                            /\ last_poll' = "ok"
                       \/ /\ tx' = dispatch(tx, ci, kind.mode, <<>>)
                          /\ last_poll' = "err"
                  ELSE /\ tx' = dispatch(tx, ci, kind.mode, <<>>)
                       /\ last_poll' = "none"
             ELSE /\ last_poll' = "none"
                  /\ UNCHANGED tx
          /\ r_k' = next_kind(ci, r_k[2])
    /\ UNCHANGED <<channels, r_pc, r_i, started, updaters, attempt, init_logs,
                   fail_logs, fails, rtt,
                   handles, rx_q>>
    /\ UNCHANGED notRouter

\* A started sink's worker pushes a value it read onto its channel
\* (tcp.rs 96-106, websocket.rs 92-101, stdio.rs 81-93): it waits in the
\* Receiver that updaters holds for the link.  Once run_logging has returned
\* an error or panicked the map is gone and a send reaches nothing.
SinkPush ==
    /\ r_pc \in {"setup", "attach", "poll"}
    /\ \E l \in Links :
         /\ updaters[l] # 0
         /\ rx_q[l] < MaxOut
         /\ rx_q' = [rx_q EXCEPT ![l] = @ + 1]
    /\ UNCHANGED <<channels, r_pc, r_i, started, updaters, attempt, init_logs,
                   fail_logs, fails, rtt, r_k, last_poll, tx, handles>>
    /\ UNCHANGED notRouter

RouterRest ==
    /\ r_pc = "setup"
    /\ r_i = 1
    /\ started = <<>>
    /\ updaters = [l \in Links |-> 0]
    /\ attempt = 1
    /\ init_logs = 0
    /\ fail_logs = 0
    /\ fails = 0
    /\ rtt = "NotAttached"
    /\ r_k = <<1, 1>>
    /\ last_poll = "none"
    /\ tx = <<>>
    /\ handles = {}
    /\ rx_q = [l \in Links |-> 0]
RouterStart == channels \in ChannelConfigs /\ RouterRest

\* ========================================================================
\* One Updater instance under start() and stop() calls
\* (stdio.rs 116-183, tcp.rs 142-229, websocket.rs 135-232)
\* ========================================================================
Workers == 1..MaxStarts

\* The workers whose thread runs: "killed" is a Process sink's worker that
\* has killed its child on a halt request and loops on (stdio.rs 136-138).
Alive == {w \in Workers : u_workers[w] \in {"running", "killed"}}

\* The number of workers start() has spawned so far.
Spawned == Cardinality({w \in Workers : u_workers[w] # "none"})

\* tcp.rs 154: TcpListener::bind fails while a worker of this instance holds
\* a listener on the same address; port 0 gives a fresh port each time.
BindFails == u_kind = "tcp" /\ ~u_ephemeral /\ Alive # {}

\* start(): stdio.rs 125-162 spawns the child and the thread, tcp.rs 154-208
\* binds and spawns the thread; self.thread_handle = Some(..) replaces
\* whatever handle was stored.
u_Start ==
    /\ u_pc = "idle"
    /\ Spawned < MaxStarts
    /\ ~BindFails
    /\ u_workers' = [u_workers EXCEPT ![Spawned + 1] = "running"]
    /\ thread_handle' = Spawned + 1
    /\ UNCHANGED <<u_kind, u_ephemeral, u_halt, u_pc, u_join>>
    /\ UNCHANGED notLife

\* start(): tcp.rs 154, bind(..).unwrap() panics.
u_StartPanic ==
    /\ u_pc = "idle"
    /\ Spawned < MaxStarts
    /\ BindFails
    /\ u_pc' = "panicked"
    /\ UNCHANGED <<u_kind, u_ephemeral, thread_handle, u_workers, u_halt, u_join>>
    /\ UNCHANGED notLife

\* stop(): tcp.rs 213-221, stdio.rs 167-175.  thread_handle.take(); with a
\* handle, h.1.send(()).unwrap() and then the join; the send panics when the
\* worker has ended and dropped its receiver.  With None stop() returns Ok.
u_StopSend ==
    /\ u_pc = "idle"
    /\ thread_handle # 0
    /\ thread_handle' = 0
    /\ IF u_workers[thread_handle] = "ended"
       THEN /\ u_pc' = "panicked"
            /\ UNCHANGED <<u_halt, u_join>>
       ELSE /\ u_halt' = [u_halt EXCEPT ![thread_handle] = @ + 1]
            /\ u_pc' = "joining"
            /\ u_join' = thread_handle
    /\ UNCHANGED <<u_kind, u_ephemeral, u_workers>>
    /\ UNCHANGED notLife

\* stop(): tcp.rs 221-228, h.0.join() returns once the closure has.
u_StopJoin ==
    /\ u_pc = "joining"
    /\ u_workers[u_join] = "ended"
    /\ u_pc' = "idle"
    /\ u_join' = 0
    /\ UNCHANGED <<u_kind, u_ephemeral, thread_handle, u_workers, u_halt>>
    /\ UNCHANGED notLife

\* A worker sees a halt request: tcp.rs 162-164 returns; stdio.rs 136-138
\* kills the child and goes on with the loop.
u_WorkerHalt ==
    /\ \E w \in Alive :
         /\ u_halt[w] > 0
         /\ u_halt' = [u_halt EXCEPT ![w] = @ - 1]
         /\ u_workers' = [u_workers EXCEPT ![w] =
                             IF u_kind = "tcp" THEN "ended" ELSE "killed"]
    /\ UNCHANGED <<u_kind, u_ephemeral, thread_handle, u_pc, u_join>>
    /\ UNCHANGED notLife

\* A Process sink's worker ends on a disconnect-class I/O error
\* (stdio.rs 142-144, 150-152).
u_WorkerIoEnd ==
    /\ u_kind = "stdio"
    /\ \E w \in Alive : u_workers' = [u_workers EXCEPT ![w] = "ended"]
    /\ UNCHANGED <<u_kind, u_ephemeral, thread_handle, u_halt, u_pc, u_join>>
    /\ UNCHANGED notLife

LifeRest ==
    /\ thread_handle = 0
    /\ u_workers = [w \in Workers |-> "none"]
    /\ u_halt = [w \in Workers |-> 0]
    /\ u_pc = "idle"
    /\ u_join = 0
LifeStart ==
    /\ u_kind \in {"stdio", "tcp"}
    /\ u_ephemeral \in BOOLEAN
    /\ (u_kind = "stdio" => u_ephemeral = FALSE)
    /\ LifeRest
LifeIdle == u_kind = "tcp" /\ u_ephemeral = FALSE /\ LifeRest

\* ========================================================================
\* The removal loop on its own (tcp.rs 71-74 and 134-137, websocket.rs
\* 69-72 and 127-130)
\* ========================================================================
LiveClients == 1..MaxLive

\* A live set holds each client once.
LiveSets ==
    {s \in UNION {[1..n -> LiveClients] : n \in 0..MaxLive} :
        \A i, j \in DOMAIN s : i # j => s[i] # s[j]}

\* to_remove as the pass builds it: enumerate() visits the indices in
\* ascending order and the removing arms push i.
RECURSIVE to_remove_asc(_)
to_remove_asc(marked) ==
    IF marked = {} THEN <<>>
    ELSE LET m == CHOOSE x \in marked : \A y \in marked : y <= x
         IN Append(to_remove_asc(marked \ {m}), m)

RemoveLoop ==
    /\ rm_pc = "pass"
    /\ rm_out' = remove_closed(rm_in, to_remove_asc(rm_marks))
    /\ rm_pc' = "done"
    /\ UNCHANGED <<rm_in, rm_marks>>
    /\ UNCHANGED notRemove

RemoveStart ==
    /\ rm_in \in LiveSets
    /\ rm_marks \in SUBSET DOMAIN rm_in
    /\ rm_out = rm_in
    /\ rm_pc = "pass"
RemoveIdle == rm_in = <<>> /\ rm_marks = {} /\ rm_out = <<>> /\ rm_pc = "pass"

\* ========================================================================
\* Configs::apply (config/mod.rs 474-501)
\* ========================================================================
ConfigNames == {"default", "a", "b"}
\* A derives value is a config name, a name the map lacks, or absent.
DerivesValues == ConfigNames \cup {"missing", "none"}

\* config.get("general").and_then(.. "derives" ..).or(Some("default"))
derives_of(name) == IF a_map[name] = "none" THEN "default" ELSE a_map[name]

top == a_stack[Len(a_stack)]
set_at(at) == [a_stack EXCEPT ![Len(a_stack)].at = at]

\* derives == name: the warning, no recursion.
ApplySelf ==
    /\ a_pc = "run" /\ top.at = "derive"
    /\ derives_of(top.name) = top.name
    /\ a_warned' = a_warned \cup {top.name}
    /\ a_stack' = set_at("merge")
    /\ UNCHANGED <<a_map, a_merged, a_pc>>
    /\ UNCHANGED notApply

\* map.get(derives) is None: nothing to merge first.
ApplyUnknown ==
    /\ a_pc = "run" /\ top.at = "derive"
    /\ derives_of(top.name) # top.name
    /\ derives_of(top.name) \notin DOMAIN a_map
    /\ a_stack' = set_at("merge")
    /\ UNCHANGED <<a_map, a_merged, a_warned, a_pc>>
    /\ UNCHANGED notApply

\* Self::apply(derives, s, dconfig, map)?: a new frame for the ancestor.
ApplyDescend ==
    /\ a_pc = "run" /\ top.at = "derive"
    /\ derives_of(top.name) # top.name
    /\ derives_of(top.name) \in DOMAIN a_map
    /\ Len(a_stack) < MaxDepth
    /\ a_stack' = Append(set_at("merge"),
                         [name |-> derives_of(top.name), at |-> "derive"])
    /\ UNCHANGED <<a_map, a_merged, a_warned, a_pc>>
    /\ UNCHANGED notApply

\* The same call with no room left on the stack: the process is aborted.
ApplyOverflow ==
    /\ a_pc = "run" /\ top.at = "derive"
    /\ derives_of(top.name) # top.name
    /\ derives_of(top.name) \in DOMAIN a_map
    /\ Len(a_stack) = MaxDepth
    /\ a_pc' = "overflow"
    /\ UNCHANGED <<a_map, a_stack, a_merged, a_warned>>
    /\ UNCHANGED notApply

\* s.merge(File::from_str(to_string(&config))) and the return to the caller.
ApplyMerge ==
    /\ a_pc = "run" /\ top.at = "merge"
    /\ a_merged' = Append(a_merged, top.name)
    /\ a_stack' = SubSeq(a_stack, 1, Len(a_stack) - 1)
    /\ a_pc' = IF Len(a_stack) = 1 THEN "returned" ELSE "run"
    /\ UNCHANGED <<a_map, a_warned>>
    /\ UNCHANGED notApply

\* Configs::try_new makes the first call for a name the map holds.
ApplyStart ==
    /\ a_map \in UNION {[D -> DerivesValues] : D \in SUBSET ConfigNames \ {{}}}
    /\ \E n \in DOMAIN a_map : a_stack = <<[name |-> n, at |-> "derive"]>>
    /\ a_merged = <<>>
    /\ a_warned = {}
    /\ a_pc = "run"
ApplyIdle ==
    /\ a_map = [n \in {"default"} |-> "none"]
    /\ a_stack = <<>>
    /\ a_merged = <<>>
    /\ a_warned = {}
    /\ a_pc = "returned"

\* ========================================================================
\* main_try and entry (lib.rs 69-86 and 287-337)
\* ========================================================================
Subsystems == {"gdb", "router"}

\* lib.rs 287-307: flashing, whose `?` returns the error.
m_Flash ==
    /\ m_pc = "flash"
    /\ \E ok \in BOOLEAN :
         m_pc' = IF m_cfg.flashing /\ ~ok THEN "returned_err" ELSE "reset"
    /\ UNCHANGED <<m_cfg, m_handles, m_threads>>
    /\ UNCHANGED notMain

\* lib.rs 309-317: the reset, whose map_err(..)? returns the error.
m_Reset ==
    /\ m_pc = "reset"
    /\ \E ok \in BOOLEAN :
         m_pc' = IF m_cfg.reset /\ ~ok THEN "returned_err" ELSE "gdb"
    /\ UNCHANGED <<m_cfg, m_handles, m_threads>>
    /\ UNCHANGED notMain

\* lib.rs 323-327: run_gdb spawns the GDB thread; its handle is pushed.
m_Gdb ==
    /\ m_pc = "gdb"
    /\ IF m_cfg.gdb
       THEN /\ m_threads' = [m_threads EXCEPT !["gdb"] = "running"]
            /\ m_handles' = m_handles \cup {"gdb"}
       ELSE UNCHANGED <<m_threads, m_handles>>
    /\ m_pc' = "logging"
    /\ UNCHANGED m_cfg
    /\ UNCHANGED notMain

\* lib.rs 329-335: run_logging spawns the router thread and returns its
\* handle, or returns an error that `?` passes on; then Ok(()) at 337.
m_Logging ==
    /\ m_pc = "logging"
    /\ \E ok \in BOOLEAN :
         IF m_cfg.logging /\ ok
         THEN /\ m_threads' = [m_threads EXCEPT !["router"] = "running"]
              /\ m_handles' = m_handles \cup {"router"}
              /\ m_pc' = "returned_ok"
         ELSE /\ UNCHANGED <<m_threads, m_handles>>
              /\ m_pc' = IF m_cfg.logging THEN "returned_err" ELSE "returned_ok"
    /\ UNCHANGED m_cfg
    /\ UNCHANGED notMain

\* lib.rs 76-77: Ok(_) => (), and entry returns.
m_EntryOk ==
    /\ m_pc = "returned_ok"
    /\ m_pc' = "entry_done"
    /\ UNCHANGED <<m_cfg, m_handles, m_threads>>
    /\ UNCHANGED notMain

\* lib.rs 78-84: the error is rendered and process::exit(1) ends every thread.
m_EntryErr ==
    /\ m_pc = "returned_err"
    /\ m_pc' = "exited"
    /\ m_threads' = [t \in Subsystems |->
                       IF m_threads[t] = "running" THEN "killed" ELSE m_threads[t]]
    /\ UNCHANGED <<m_cfg, m_handles>>
    /\ UNCHANGED notMain

\* gdb.rs 13-31: the GDB thread's closure returns when the server's run ends.
m_GdbEnds ==
    /\ m_pc # "exited"
    /\ m_threads["gdb"] = "running"
    /\ m_threads' = [m_threads EXCEPT !["gdb"] = "finished"]
    /\ UNCHANGED <<m_cfg, m_pc, m_handles>>
    /\ UNCHANGED notMain

MainRest ==
    /\ m_pc = "flash"
    /\ m_handles = {}
    /\ m_threads = [t \in Subsystems |-> "none"]
MainStart ==
    /\ m_cfg \in [flashing : BOOLEAN, reset : BOOLEAN, gdb : BOOLEAN,
                    logging : BOOLEAN]
    /\ MainRest
MainIdle ==
    /\ m_cfg = [flashing |-> FALSE, reset |-> FALSE, gdb |-> FALSE,
                 logging |-> FALSE]
    /\ MainRest

\* ========================================================================
\* Specifications
\* ========================================================================
SinkIdle == SinkInit /\ sink = "tcp"
CascadeIdle == c_in = <<>> /\ CascadeRest
RouterIdle == channels = <<>> /\ RouterRest

Init == SinkInit /\ StdioInit /\ CascadeIdle /\ RouterIdle /\ LifeIdle /\ RemoveIdle
    /\ MainIdle
    /\ ApplyIdle
Next == SinkNext
Spec == Init /\ [][Next]_vars

StdioStart == SinkIdle /\ StdioInit /\ CascadeIdle /\ RouterIdle /\ LifeIdle /\ RemoveIdle
    /\ MainIdle
    /\ ApplyIdle
StdioSpec == StdioStart /\ [][StdioNext]_vars

CascadeNext == ClassifyTcp \/ ClassifyStdio \/ ClassifyWsText \/ ClassifyWsBinary
CascadeInit == SinkIdle /\ StdioInit /\ CascadeStart /\ RouterIdle /\ LifeIdle /\ RemoveIdle
    /\ MainIdle
    /\ ApplyIdle
CascadeSpec == CascadeInit /\ [][CascadeNext]_vars

RouterNext ==
    \/ SetupStart \/ SetupPanic \/ DefmtOk \/ DefmtErr
    \/ AttachOk \/ AttachFail \/ PollKind \/ SinkPush
RouterInit == SinkIdle /\ StdioInit /\ CascadeIdle /\ RouterStart /\ LifeIdle /\ RemoveIdle
    /\ MainIdle
    /\ ApplyIdle
RouterSpec == RouterInit /\ [][RouterNext]_vars

\* The TCP sink alone, its worker thread scheduled fairly: the thread runs
\* whenever it has a step to take.
TcpNext ==
    \/ HaltCheck \/ AcceptOk \/ AcceptErr \/ ReadAll \/ WriteStep
    \/ CallerSend \/ StopSend \/ StopJoin
    \/ ClientConnect \/ ClientSend \/ ClientShut \/ ClientReset
TcpInit == SinkIdle /\ StdioInit /\ CascadeIdle /\ RouterIdle /\ LifeIdle /\ RemoveIdle
    /\ MainIdle
    /\ ApplyIdle

\* A read pass none of whose reads is cut short by a signal (tcp.rs 87
\* returning ErrorKind::Interrupted): this happens again and again.
ReadAllUninterrupted ==
    /\ pc = "read"
    /\ \E o \in ResultFns(sockets, ReadResults) :
         /\ \A i \in DOMAIN o : o[i] # Io("Interrupted")
         /\ read_from_all_sockets(o)
    /\ pc' = "write"
    /\ UNCHANGED <<sink, accept_nb, backlog, hs, inbound, halt, stop_state,
                   next_id, wlog>>
    /\ UNCHANGED notSink

TcpFairSpec ==
    TcpInit /\ [][TcpNext]_vars /\ WF_vars(Worker) /\ SF_vars(ReadAllUninterrupted)

\* The router with its thread scheduled fairly: the thread spawned at
\* logging.rs 68 runs whenever it has a step to take.
RouterThread == AttachOk \/ AttachFail \/ PollKind
RouterFairSpec == RouterInit /\ [][RouterNext]_vars /\ WF_vars(RouterThread)

LifeNext ==
    \/ u_Start \/ u_StartPanic \/ u_StopSend \/ u_StopJoin
    \/ u_WorkerHalt \/ u_WorkerIoEnd
LifeInit == SinkIdle /\ StdioInit /\ CascadeIdle /\ RouterIdle /\ LifeStart /\ RemoveIdle
    /\ MainIdle
    /\ ApplyIdle
LifeSpec == LifeInit /\ [][LifeNext]_vars

RemoveNext == RemoveLoop
RemoveInit == SinkIdle /\ StdioInit /\ CascadeIdle /\ RouterIdle /\ LifeIdle /\ RemoveStart
    /\ MainIdle
    /\ ApplyIdle
RemoveSpec == RemoveInit /\ [][RemoveNext]_vars

ApplyNext ==
    \/ ApplySelf \/ ApplyUnknown \/ ApplyDescend \/ ApplyOverflow \/ ApplyMerge
ApplyInit == SinkIdle /\ StdioInit /\ CascadeIdle /\ RouterIdle /\ LifeIdle /\ RemoveIdle
    /\ MainIdle
    /\ ApplyStart
ApplySpec == ApplyInit /\ [][ApplyNext]_vars

MainNext ==
    \/ m_Flash \/ m_Reset \/ m_Gdb \/ m_Logging
    \/ m_EntryOk \/ m_EntryErr \/ m_GdbEnds
MainInit == SinkIdle /\ StdioInit /\ CascadeIdle /\ RouterIdle /\ LifeIdle /\ RemoveIdle
    /\ ApplyIdle
    /\ MainStart
MainSpec == MainInit /\ [][MainNext]_vars

\* ========================================================================
\* Properties
\* ========================================================================
Last(q) == q[Len(q)]
Live == Range(sockets)

\* C1 (RouterSpec): run_logging starts exactly one sink worker per distinct
\* LinkKind: no link ever has two workers started for it, and once the set-up
\* loop is through every configured link has exactly one.
C1_OneWorkerPerLink ==
    /\ \A l \in Links : Cardinality({j \in DOMAIN started : started[j] = l}) <= 1
    /\ r_pc \in {"attach", "poll"} =>
         \A i \in DOMAIN channels :
            Cardinality({j \in DOMAIN started : started[j] = channels[i].link}) = 1

\* C2 (Spec): broadcast.  In the step in which the worker dequeues a value,
\* every live client whose connection is open gets the whole value, and a
\* client outside the live set gets nothing.
C2_Broadcast ==
    [][(pc = "write" /\ inbound # <<>> /\ pc' = "halt") =>
         \A c \in Clients :
            IF c \in Live
            THEN peer[c] = "open" =>
                   /\ Len(wlog'[c]) = Len(wlog[c]) + 1
                   /\ Last(wlog'[c]) = [id |-> Head(inbound).id, res |-> "full"]
            ELSE wlog'[c] = wlog[c]]_vars

\* C3 (Spec): removal in the TCP sink.  A client whose read or write reported
\* a disconnect-class error is out of the live set when the pass that saw the
\* error ends, so at the start of every later iteration, and no write is
\* issued on its socket again.
C3_Removal ==
    /\ [](sink = "tcp" => disc \cap Live = {})
    /\ [][sink = "tcp" => \A c \in disc : wlog'[c] = wlog[c]]_vars

\* A TCP client was written to, then reported a disconnect-class error and
\* was removed, while another client stays live, at the top of an iteration.
C3_Witness ==
    /\ sink = "tcp"
    /\ pc = "halt"
    /\ \E c \in disc : wlog[c] # <<>>
    /\ Live # {}

\* C4 (Spec): per-client ordering.  The values written to a client are in the
\* order the caller enqueued them, none twice; the values pushed to the caller
\* that come from one client are in the order they were read from it.
C4_Ordering ==
    /\ \A c \in Clients : \A i, j \in DOMAIN wlog[c] :
          i < j => wlog[c][i].id < wlog[c][j].id
    /\ \A i, j \in DOMAIN outbound :
          (i < j /\ outbound[i].from = outbound[j].from)
             => outbound[i].seq < outbound[j].seq

\* A client has been written two values and two values read from one client
\* are queued for the caller.
C4_Witness ==
    /\ \E c \in Clients : Len(wlog[c]) >= 2
    /\ \E i, j \in DOMAIN outbound : i < j /\ outbound[i].from = outbound[j].from

\* C5 (Spec): after stop() the worker gets to the top of its loop, sees the
\* halt request and ends, and stop() returns Ok: while stop() waits, the
\* worker has ended or has a step it can take on its own, and stop() has
\* returned only after the worker ended.
C5_StopObserved ==
    /\ (stop_state = "joining" /\ pc # "done") => ENABLED Worker
    /\ stop_state = "ok" => pc = "done"

\* C6 (StdioSpec): in the iteration in which the Process sink's worker sees
\* the halt request it kills the child and its loop returns: a killed child
\* means the loop has ended.
C6_StopReturns == child = "killed" => p_pc = "done"

\* The tag the cascade is to give a byte sequence.
CascadeTag(b) ==
    IF ~from_utf8_ok(b) THEN "Bytes"
    ELSE IF from_str_ok(b) THEN "StructuredString" ELSE "String"

C9_AttachRetry ==
    rtt = "Attached" =>
       /\ attempt - 1 = fails + 1
       /\ init_logs = fails + 1
       /\ fail_logs = fails
       /\ r_pc = "poll"

\* C10 (RouterSpec): a failed read of the target takes the router out of
\* Attached: it is never Attached with its latest read failed.
C10_ReadFailureDetaches == last_poll = "err" => rtt # "Attached"

\* C11 (RouterSpec): in state Attached, a read of a configured channel's
\* up-channel is followed, in the same step of the polling loop and whatever
\* the channel's decode mode, by one Value pushed onto the Duplex Channel of
\* the sink the channel's LinkKind names, and onto no other.
C11_Routed ==
    [][(r_pc = "poll" /\ last_poll' = "ok" /\ Len(tx) < MaxOut) =>
          /\ Len(tx') = Len(tx) + 1
          /\ SubSeq(tx', 1, Len(tx)) = tx
          /\ Last(tx').ch = r_k[1]
          /\ Last(tx').to = updaters[channels[r_k[1]].link]]_vars

\* C12 (Spec): a WebSocket client whose handshake is still in progress (it has
\* connected and not yet sent its request) is kept: no step drops it.
C12_HandshakeKept ==
    [][\A c \in Clients : peer[c] = "syn" => peer'[c] # "gone"]_vars

\* C13 (Spec): in the WebSocket sink a client whose read or write reported a
\* disconnect-class I/O error is out of the live set when that pass ends.
C13_WsRemoval == sink = "ws" => disc \cap Live = {}

\* C16 (RouterSpec): when loading the trace-decode table fails, run_logging
\* returns the error and no sink worker it started is left running.
C16_AbortClean == r_pc = "returned_err" => started = <<>>

\* C17 (Spec): no step of the worker's loop waits on a peer: until the loop
\* has ended the worker always has a step it can take on its own.
C17_NoWait == pc # "done" => ENABLED Worker

\* C15 (StdioSpec): when the Process sink's loop has ended, the child it
\* spawned is not still running.
C15_ChildTerminated == p_pc = "done" => child # "running"

\* C18 (LifeSpec): whatever start and stop calls one Updater instance has
\* had, at most one worker it spawned is alive, and every live worker is the
\* one its stored thread handle names (or the one stop() is joining).
C18_OneWorker ==
    /\ Cardinality(Alive) <= 1
    /\ \A w \in Alive : thread_handle = w \/ (u_pc = "joining" /\ u_join = w)

\* C20 (Spec): a value the worker dequeues is written only in the step that
\* dequeues it and only to the clients in the live set at that step; the step
\* takes it off the queue whether or not anyone is live, so a client accepted
\* later never gets it, and a connection not yet accepted has got nothing.
C20_LiveOnly ==
    /\ [](\A c \in Clients :
            (peer[c] \in {"none", "syn"} \/ c \in Range(backlog)) => wlog[c] = <<>>)
    /\ [][\A c \in Clients :
             wlog'[c] # wlog[c] =>
                /\ pc = "write" /\ inbound # <<>>
                /\ c \in Live
                /\ Len(wlog'[c]) = Len(wlog[c]) + 1
                /\ SubSeq(wlog'[c], 1, Len(wlog[c])) = wlog[c]
                /\ Last(wlog'[c]).id = Head(inbound).id]_vars
    /\ [][(pc = "write" /\ pc' = "halt" /\ inbound # <<>>) =>
             inbound' = Tail(inbound)]_vars

\* A live client's first write is of the caller's second value: the first
\* was dequeued, and dropped for this client, before it was accepted or
\* without it, and a later connection still waits in the backlog.
C20_Witness ==
    /\ \E c \in Live : wlog[c] # <<>> /\ wlog[c][1].id = 2
    /\ backlog # <<>>

\* C14 (TcpFairSpec): the TCP sink leaks no socket.  A live client whose peer
\* has closed the connection, by a reset or in order, is eventually out of
\* the live set (or the worker has ended, and dropped every socket).
C14_NoLeak ==
    \A c \in Clients :
       (c \in Live /\ peer[c] \in {"shut", "reset"}) ~> (c \notin Live \/ pc = "done")

\* C19 (TcpFairSpec): receive path.  What a live TCP client has sent is
\* eventually read off its socket, to be pushed to the caller (or the
\* connection is lost, or the worker has ended).
C19_Delivery ==
    \A c \in Clients :
       (c \in Live /\ pend[c] # <<>>) ~> (pend[c] = <<>> \/ pc = "done")

C22_NeverReturns ==
    /\ [][(r_pc \in {"attach", "poll"}) => (r_pc' \in {"attach", "poll"})]_vars
    /\ [](r_pc = "poll" <=> rtt = "Attached")

\* The thread has failed to attach, attached, and polled a value out.
C22_Witness == r_pc = "poll" /\ fails > 0 /\ tx # <<>>

\* C26 (RouterSpec): the router pushes a Value to a sink only when the read
\* of the up-channel returned at least one byte: no pushed Value is empty.
C26_NoEmptyPush == \A i \in DOMAIN tx : tx[i].val.data # <<>>

\* C27 (RouterFairSpec): a Value a sink's worker pushed onto the channel the
\* router holds is eventually received by the router.
C27_Received ==
    \A l \in Links :
       (r_pc \in {"attach", "poll"} /\ rx_q[l] > 0) ~> (rx_q[l] = 0)

\* C28 (RouterSpec): once the set-up loop is through, the stop control (the
\* Updater object) of every worker run_logging started is still held.
C28_Stoppable ==
    r_pc \in {"attach", "poll", "returned_err"} =>
       \A j \in DOMAIN started : j \in handles

\* C23 (LifeSpec): stop() returns a Result whatever state the Updater is in:
\* the step that takes the stored handle never panics.
C23_StopReturns ==
    [][(u_pc = "idle" /\ thread_handle # 0 /\ thread_handle' = 0) =>
          u_pc' # "panicked"]_vars

\* C25 (StdioSpec): the worker pushes a Value to the caller only in a step
\* whose read took at least one byte of what the child wrote.
C25_PushNeedsBytes ==
    [][Len(p_outbound') > Len(p_outbound) => Len(p_stdout') < Len(p_stdout)]_vars

\* C24 (RemoveSpec): after the removal loop the live set holds exactly the
\* clients that were not marked, each once.
C24_ExactRemoval ==
    rm_pc = "done" =>
        /\ Range(rm_out) = {rm_in[i] : i \in DOMAIN rm_in \ rm_marks}
        /\ Len(rm_out) = Len(rm_in) - Cardinality(rm_marks)
\* several clients marked, the last one kept and moved into a freed slot
C24_Witness ==
    /\ rm_pc = "done"
    /\ Len(rm_in) = MaxLive
    /\ Cardinality(rm_marks) >= 2
    /\ 1 \in rm_marks
    /\ Len(rm_in) \notin rm_marks
    /\ rm_out[1] = rm_in[Len(rm_in)]

\* C29 (ApplySpec): Configs::apply terminates for every derives assignment:
\* no config is entered again while its own call is still on the stack, and
\* the recursion never exhausts the stack.
C29_Terminates ==
    /\ a_pc # "overflow"
    /\ \A i, j \in DOMAIN a_stack : i < j => a_stack[i].name # a_stack[j].name

\* C30 (MainSpec): once main_try has returned Ok, every thread whose join
\* handle it collected has finished.
C30_JoinsBeforeReturn ==
    m_pc \in {"returned_ok", "entry_done"} =>
        \A h \in m_handles : m_threads[h] = "finished"
====
